---- MODULE Spec2Model ----
(***************************************************************************)
(* A model of the avro codec library: the byte cursor (Tap) and            *)
(* hasDuplicates of src/utils.js, and the schema factory, the Type         *)
(* contract and the string, array and record types that import them.       *)
(*                                                                         *)
(* JavaScript values are modelled by what the operations do with them:     *)
(*   - a number that flows through the long codec is a sign and a          *)
(*     magnitude hi * 2^28 + lo, rounded the way an IEEE-754 double rounds *)
(*     (53-bit significand, ties to even);                                 *)
(*   - a string is its sequence of UTF-16 code units;                      *)
(*   - a Uint8Array is its length and its bytes (bytes never written are   *)
(*     zero and are not stored).                                           *)
(***************************************************************************)
EXTENDS Integers, Sequences, FiniteSets, TLC

VARIABLES
    registry,   \* the caller's registry object: qualified name -> type id
    heap,       \* the Type objects created so far; a type's id is its index
    attrsOf,    \* history: the schema node each Type object was built from
    TAP,        \* the shared scratch tap of toBuffer
    PATH,       \* the shared path stack of isValid
    ret         \* the call made last and what its caller observed

vars == <<registry, heap, attrsOf, TAP, PATH, ret>>

Min(a, b) == IF a < b THEN a ELSE b
Max(a, b) == IF a > b THEN a ELSE b

RECURSIVE Pow(_, _)
Pow(b, e) == IF e = 0 THEN 1 ELSE b * Pow(b, e - 1)

Zeros(n) == [i \in 1..n |-> 0]

\* The element of a one-element set: The({e : x \in {v}}) is e with x bound
\* to the value of v.
The(S) == CHOOSE x \in S : TRUE

\* f[a] \o ... \o f[b], by halves.
RECURSIVE ConcatRange(_, _, _)
ConcatRange(f, a, b) ==
    IF a > b THEN <<>>
    ELSE IF a = b THEN f[a]
    ELSE ConcatRange(f, a, (a + b) \div 2) \o ConcatRange(f, (a + b) \div 2 + 1, b)

(***************************************************************************)
(* Numbers.                                                                *)
(***************************************************************************)
TwoTo28 == 268435456
TwoTo30 == 1073741824

\* An integral double of magnitude below 2^59, as hi * 2^28 + lo.
Num(neg, hi, lo) == [neg |-> neg, hi |-> hi, lo |-> lo]
NumOf(i) == IF i < 0 THEN Num(TRUE, (-i) \div TwoTo28, (-i) % TwoTo28)
            ELSE Num(FALSE, i \div TwoTo28, i % TwoTo28)
\* The integer a number stands for (pos += len, n--, comparisons).
IntOf(x) == IF x.neg THEN -(x.hi * TwoTo28 + x.lo) ELSE x.hi * TwoTo28 + x.lo
WNorm(hi, lo) == [hi |-> hi + lo \div TwoTo28, lo |-> lo % TwoTo28]
WIsZero(w) == w.hi = 0 /\ w.lo = 0

\* How many low bits a double cannot hold: the magnitude's bit length - 53.
RECURSIVE ExcessBits(_)
ExcessBits(hi) == IF hi < TwoTo28 \div 8 THEN 0 ELSE 1 + ExcessBits(hi \div 2)

\* The double nearest to an exact integer result, ties to the even significand.
RoundDouble(w) ==
    LET q == Pow(2, ExcessBits(w.hi))
        r == w.lo % q
        down == w.lo - r
        up == 2 * r > q \/ (2 * r = q /\ (down \div q) % 2 = 1)
    IN  IF r = 0 THEN w
        ELSE IF up THEN WNorm(w.hi, down + q)
        ELSE [hi |-> w.hi, lo |-> down]

FMul2(w) == WNorm(2 * w.hi, 2 * w.lo)
FSub1(w) == RoundDouble(IF w.lo > 0 THEN [hi |-> w.hi, lo |-> w.lo - 1]
                        ELSE [hi |-> w.hi - 1, lo |-> TwoTo28 - 1])
FAdd1(w) == RoundDouble(WNorm(w.hi, w.lo + 1))
FHalf(w) == [hi |-> w.hi \div 2, lo |-> w.lo \div 2 + (w.hi % 2) * (TwoTo28 \div 2)]
\* f /= 128 followed only by ToInt32(f) and f >= 1: the integer part decides.
FDiv128(w) == [hi |-> w.hi \div 128, lo |-> w.lo \div 128 + (w.hi % 128) * (TwoTo28 \div 128)]
\* f += d * fk with fk = 2^28 * 128^j.
FAddScaled(w, d, j) ==
    IF d = 0 THEN w ELSE RoundDouble([hi |-> w.hi + d * Pow(128, j), lo |-> w.lo])

(***************************************************************************)
(* Uint8Array.                                                             *)
(***************************************************************************)
Undefined == -1

U8(size, data) == [size |-> size, data |-> data]
U8Of(bytes) == U8(Len(bytes), bytes)

\* buf[i]: undefined outside 0 .. length-1.
At(buf, i) ==
    IF i < 0 \/ i >= buf.size THEN Undefined
    ELSE IF i < Len(buf.data) THEN buf.data[i + 1] ELSE 0

\* buf[i] = b: a store outside the array is dropped.
SetByte(buf, i, b) ==
    IF i < 0 \/ i >= buf.size THEN buf
    ELSE IF i < Len(buf.data) THEN [buf EXCEPT !.data[i + 1] = b]
    ELSE [buf EXCEPT !.data = buf.data \o Zeros(i - Len(buf.data)) \o <<b>>]

\* buf.set(bytes, at), for 0 <= at and at + bytes.length <= buf.length.
SetBytes(buf, bytes, at) ==
    LET old == buf.data \o Zeros(at - Len(buf.data))
    IN  [buf EXCEPT !.data = SubSeq(old, 1, at) \o bytes
                              \o SubSeq(old, at + Len(bytes) + 1, Len(old))]

\* typedArray.slice(start, end): negative indices count from the end.
Slice(buf, start, end) ==
    LET n == buf.size
        s == IF start < 0 THEN Max(n + start, 0) ELSE Min(start, n)
        e == IF end < 0 THEN Max(n + end, 0) ELSE Min(end, n)
    IN  [i \in 1..Max(e - s, 0) |-> At(buf, s + i - 1)]

\* b & 0x7f and b & 0x80, where undefined converts to 0.
Low7(b) == IF b = Undefined THEN 0 ELSE b % 128
High(b) == IF b = Undefined THEN 0 ELSE b \div 128

(***************************************************************************)
(* Tap.                                                                    *)
(***************************************************************************)
Tap(buf, pos) == [buf |-> buf, pos |-> pos]

TapIsValid(tap) == tap.pos <= tap.buf.size

RECURSIVE ReadGroupsInt(_, _, _, _)
ReadGroupsInt(buf, pos, n, k) ==
    The({IF High(b) = 1 /\ k + 7 < 28
         THEN ReadGroupsInt(buf, pos + 1, n + Low7(b) * Pow(2, k), k + 7)
         ELSE [n |-> n + Low7(b) * Pow(2, k), h |-> High(b), pos |-> pos + 1]
         : b \in {At(buf, pos)}})

RECURSIVE ReadGroupsFloat(_, _, _, _)
ReadGroupsFloat(buf, pos, f, j) ==
    The({IF High(At(buf, pos)) = 1 THEN ReadGroupsFloat(buf, pos + 1, f2, j + 1)
         ELSE [f |-> f2, pos |-> pos + 1]
         : f2 \in {FAddScaled(f, Low7(At(buf, pos)), j)}})

\* Tap.prototype.readLong: the number read and the tap's position after it.
readLong(tap) ==
    The({IF g.h = 1
         THEN The({[val |-> IF r.f.lo % 2 = 1
                            THEN The({Num(TRUE, v.hi, v.lo) : v \in {FHalf(FAdd1(r.f))}})
                            ELSE The({Num(FALSE, v.hi, v.lo) : v \in {FHalf(r.f)}}),
                    pos |-> r.pos]
                   : r \in {ReadGroupsFloat(tap.buf, g.pos, [hi |-> 0, lo |-> g.n], 0)}})
         ELSE [val |-> IF g.n % 2 = 1 THEN NumOf(-((g.n + 1) \div 2))
                       ELSE NumOf(g.n \div 2),
               pos |-> g.pos]
         : g \in {ReadGroupsInt(tap.buf, tap.pos, 0, 0)}})

RECURSIVE WriteGroupsInt(_, _, _)
WriteGroupsInt(buf, pos, m) ==
    IF m \div 128 # 0
    THEN The({WriteGroupsInt(b, pos + 1, m \div 128)
              : b \in {SetByte(buf, pos, (m % 128) + 128)}})
    ELSE Tap(SetByte(buf, pos, m % 128), pos + 1)

RECURSIVE WriteGroupsFloat(_, _, _)
WriteGroupsFloat(buf, pos, f) ==
    IF ~WIsZero(FDiv128(f))
    THEN The({WriteGroupsFloat(b, pos + 1, FDiv128(f))
              : b \in {SetByte(buf, pos, (f.lo % 128) + 128)}})
    ELSE Tap(SetByte(buf, pos, f.lo % 128), pos + 1)

\* n >= -1073741824 && n < 1073741824
InIntRange(n) ==
    LET q == TwoTo30 \div TwoTo28
    IN  IF n.neg THEN n.hi < q \/ (n.hi = q /\ n.lo = 0) ELSE n.hi < q

\* Tap.prototype.writeLong.
writeLong(tap, n) ==
    IF InIntRange(n)
    THEN LET v == n.hi * TwoTo28 + n.lo
             m == IF ~n.neg \/ v = 0 THEN 2 * v ELSE 2 * (v - 1) + 1
         IN  WriteGroupsInt(tap.buf, tap.pos, m)
    ELSE The({WriteGroupsFloat(tap.buf, tap.pos, f)
              : f \in {IF ~n.neg THEN FMul2([hi |-> n.hi, lo |-> n.lo])
                       ELSE FSub1(FMul2([hi |-> n.hi, lo |-> n.lo]))}})

(***************************************************************************)
(* TextEncoder and TextDecoder (UTF-8).  A string is its sequence of       *)
(* UTF-16 code units.                                                      *)
(***************************************************************************)
IsHighSurrogate(c) == c >= 55296 /\ c <= 56319
IsLowSurrogate(c) == c >= 56320 /\ c <= 57343
ReplacementChar == 65533
ByteOrderMark == 65279

\* The UTF-8 bytes of one code point.
Utf8Bytes(cp) ==
    IF cp < 128 THEN <<cp>>
    ELSE IF cp < 2048 THEN <<192 + cp \div 64, 128 + (cp % 64)>>
    ELSE IF cp < 65536
    THEN <<224 + cp \div 4096, 128 + ((cp \div 64) % 64), 128 + (cp % 64)>>
    ELSE <<240 + cp \div 262144, 128 + ((cp \div 4096) % 64),
           128 + ((cp \div 64) % 64), 128 + (cp % 64)>>

\* new TextEncoder().encode(s): a surrogate pair is one code point, a lone
\* surrogate is encoded as U+FFFD.  EncodeAt is what the code unit at i adds.
EncodeAt(s, i) ==
    LET c == s[i]
    IN  IF IsHighSurrogate(c) /\ i < Len(s) /\ IsLowSurrogate(s[i + 1])
        THEN Utf8Bytes(65536 + (c - 55296) * 1024 + (s[i + 1] - 56320))
        ELSE IF IsLowSurrogate(c) /\ i > 1 /\ IsHighSurrogate(s[i - 1]) THEN <<>>
        ELSE IF IsHighSurrogate(c) \/ IsLowSurrogate(c) THEN Utf8Bytes(ReplacementChar)
        ELSE Utf8Bytes(c)

TextEncode(s) ==
    The({ConcatRange([i \in 1..Len(u) |-> EncodeAt(u, i)], 1, Len(u)) : u \in {s}})

\* The UTF-16 code units of one decoded code point.
CodeUnits(cp) ==
    IF cp < 65536 THEN <<cp>>
    ELSE <<55296 + (cp - 65536) \div 1024, 56320 + ((cp - 65536) % 1024)>>

\* The UTF-8 decoder of the Encoding standard, in replacement mode: the
\* code points of bytes[i..], from the decoder state (cp, need, lo, hi).
RECURSIVE Utf8Decode(_, _, _, _, _, _)
Utf8Decode(bytes, i, cp, need, lo, hi) ==
    IF i > Len(bytes) THEN (IF need > 0 THEN <<ReplacementChar>> ELSE <<>>)
    ELSE LET b == bytes[i]
         IN  IF need = 0
             THEN IF b < 128 THEN <<b>> \o Utf8Decode(bytes, i + 1, 0, 0, 128, 191)
                  ELSE IF b >= 194 /\ b <= 223
                  THEN Utf8Decode(bytes, i + 1, b % 32, 1, 128, 191)
                  ELSE IF b >= 224 /\ b <= 239
                  THEN Utf8Decode(bytes, i + 1, b % 16, 2,
                                  IF b = 224 THEN 160 ELSE 128,
                                  IF b = 237 THEN 159 ELSE 191)
                  ELSE IF b >= 240 /\ b <= 244
                  THEN Utf8Decode(bytes, i + 1, b % 8, 3,
                                  IF b = 240 THEN 144 ELSE 128,
                                  IF b = 244 THEN 143 ELSE 191)
                  ELSE <<ReplacementChar>> \o Utf8Decode(bytes, i + 1, 0, 0, 128, 191)
             ELSE IF b < lo \/ b > hi
             THEN \* the byte is not a continuation: it is decoded again
                  <<ReplacementChar>> \o Utf8Decode(bytes, i, 0, 0, 128, 191)
             ELSE IF need = 1
             THEN <<cp * 64 + (b % 64)>> \o Utf8Decode(bytes, i + 1, 0, 0, 128, 191)
             ELSE Utf8Decode(bytes, i + 1, cp * 64 + (b % 64), need - 1, 128, 191)

IsContinuation(b) == b >= 128 /\ b <= 191

\* The bytes from i up to the next byte that is not a continuation byte: a
\* byte that is not a continuation byte always starts the decoder afresh.
RECURSIVE ChunkEnd(_, _)
ChunkEnd(bytes, i) ==
    IF i < Len(bytes) /\ IsContinuation(bytes[i + 1]) THEN ChunkEnd(bytes, i + 1) ELSE i

DecodeAt(bytes, i) ==
    IF i > 1 /\ IsContinuation(bytes[i]) THEN <<>>
    ELSE Utf8Decode(SubSeq(bytes, i, ChunkEnd(bytes, i)), 1, 0, 0, 128, 191)

Utf16(cps) ==
    The({ConcatRange([i \in 1..Len(c) |-> CodeUnits(c[i])], 1, Len(c)) : c \in {cps}})

\* new TextDecoder().decode(u8): ignoreBOM is false, so a leading U+FEFF is
\* not part of the result.
TextDecode(bytes) ==
    The({Utf16(IF cps # <<>> /\ Head(cps) = ByteOrderMark THEN Tail(cps) ELSE cps)
         : cps \in {The({ConcatRange([i \in 1..Len(b) |-> DecodeAt(b, i)], 1, Len(b))
                         : b \in {bytes}})}})

\* Tap.prototype.readString: the string read (none when the length runs past
\* the buffer) and the tap's position after it.
readString(tap) ==
    The({IF r.pos + IntOf(r.val) > tap.buf.size
         THEN [some |-> FALSE, s |-> <<>>, pos |-> r.pos + IntOf(r.val)]
         ELSE [some |-> TRUE,
               s |-> TextDecode(Slice(tap.buf, r.pos, r.pos + IntOf(r.val))),
               pos |-> r.pos + IntOf(r.val)]
         : r \in {readLong(tap)}})

\* Tap.prototype.writeString.
writeString(tap, s) ==
    The({The({IF w.pos + Len(buf) > w.buf.size THEN Tap(w.buf, w.pos + Len(buf))
              ELSE Tap(SetBytes(w.buf, buf, w.pos), w.pos + Len(buf))
              : w \in {writeLong(tap, NumOf(Len(buf)))}})
         : buf \in {TextEncode(s)}})

(***************************************************************************)
(* hasDuplicates.  obj = {} inherits the properties of Object.prototype,   *)
(* and obj[elem] reads them.                                               *)
(***************************************************************************)
ObjectPrototypeKeys ==
    {"constructor", "hasOwnProperty", "isPrototypeOf", "propertyIsEnumerable",
     "toLocaleString", "toString", "valueOf", "__proto__",
     "__defineGetter__", "__defineSetter__", "__lookupGetter__", "__lookupSetter__"}

RECURSIVE HasDuplicatesFrom(_, _, _)
HasDuplicatesFrom(arr, i, obj) ==
    IF i > Len(arr) THEN FALSE
    ELSE IF arr[i] \in obj \/ arr[i] \in ObjectPrototypeKeys THEN TRUE
    ELSE HasDuplicatesFrom(arr, i + 1, obj \cup {arr[i]})

\* hasDuplicates(arr, fn), applied to the elements' keys fn(elem).
hasDuplicates(keys) == HasDuplicatesFrom(keys, 1, {})

(***************************************************************************)
(* JavaScript values: strings, arrays, objects (their own properties in    *)
(* the order they were set), a number, and undefined.                      *)
(***************************************************************************)
Str(s) == [k |-> "str", s |-> s, a |-> <<>>, o |-> <<>>]
Arr(a) == [k |-> "arr", s |-> <<>>, a |-> a, o |-> <<>>]
Obj(o) == [k |-> "obj", s |-> <<>>, a |-> <<>>, o |-> o]
Number == [k |-> "num", s |-> <<>>, a |-> <<>>, o |-> <<>>]
Undef == [k |-> "undef", s |-> <<>>, a |-> <<>>, o |-> <<>>]
Prop(name, val) == [name |-> name, val |-> val]

\* val.name, for a val that is not undefined: an own property of an object,
\* undefined otherwise.
Get(val, name) ==
    IF val.k = "obj" /\ \E i \in 1..Len(val.o) : val.o[i].name = name
    THEN val.o[CHOOSE i \in 1..Len(val.o) : val.o[i].name = name].val
    ELSE Undef

\* typeof val == 'object' (val is never null here)
IsObject(val) == val.k \in {"obj", "arr"}

(***************************************************************************)
(* Type objects.  A Field is [name, type, order]; it keeps nothing of the  *)
(* schema's default, and getDefault() returns undefined.                   *)
(***************************************************************************)
TypeObj(kind, name, items, fields) ==
    [kind |-> kind, name |-> name, items |-> items, fields |-> fields]

getDefault(field) == Undef

TypeErrorNoReset == "TypeError: Type._reset is not a function"
TypeErrorNoSkipLong == "TypeError: tap.skipLong is not a function"
TypeErrorNoWriteBinary == "TypeError: tap.writeBinary is not a function"
TypeErrorConst == "TypeError: Assignment to constant variable."
TypeErrorUndefined == "TypeError: Cannot read properties of undefined"
InvalidError == "invalid value"

(***************************************************************************)
(* _write: the tap after the write and the error thrown, if any.           *)
(***************************************************************************)
Wrote(tap, err) == [tap |-> tap, err |-> err]

RECURSIVE Write(_, _, _)
RECURSIVE WriteItems(_, _, _, _)
RECURSIVE WriteFields(_, _, _, _)

\* ArrayType._write's loop over val[i .. n-1].
WriteItems(t, tap, a, i) ==
    IF i > Len(a) THEN Wrote(tap, "")
    ELSE The({IF w.err # "" THEN w ELSE WriteItems(t, w.tap, a, i + 1)
              : w \in {Write(heap[t].items, tap, a[i])}})

\* The writer RecordType._createWriter generates, from field i on.
WriteFields(t, tap, val, i) ==
    IF i > Len(heap[t].fields) THEN Wrote(tap, "")
    ELSE IF val.k = "undef" THEN Wrote(tap, TypeErrorUndefined)
    ELSE LET field == heap[t].fields[i]
             v == Get(val, field.name)
         IN  The({IF w.err # "" THEN w ELSE WriteFields(t, w.tap, val, i + 1)
                  : w \in {IF getDefault(field) = Undef THEN Write(field.type, tap, v)
                           ELSE IF v = Undef THEN Wrote(tap, TypeErrorNoWriteBinary)
                           ELSE Write(field.type, tap, v)}})

Write(t, tap, val) ==
    CASE heap[t].kind = "string" ->
            IF val.k # "str" THEN Wrote(tap, InvalidError)
            ELSE Wrote(writeString(tap, val.s), "")
      [] heap[t].kind = "array" ->
            IF val.k # "arr" THEN Wrote(tap, InvalidError)
            ELSE The({IF w.err # "" THEN w
                      ELSE Wrote(writeLong(w.tap, NumOf(0)), "")
                      : w \in {IF Len(val.a) # 0
                               THEN The({WriteItems(t, head, val.a, 1)
                                         : head \in {writeLong(tap, NumOf(Len(val.a)))}})
                               ELSE Wrote(tap, "")}})
      [] heap[t].kind = "record" -> WriteFields(t, tap, val, 1)

\* Type.prototype.toBuffer: the scratch tap after the call, the bytes
\* returned and the error thrown, if any.
toBuffer(t, val) ==
    The({IF w.err # "" THEN [tap |-> w.tap, bytes |-> <<>>, err |-> w.err]
         ELSE IF ~TapIsValid(w.tap)
         THEN [tap |-> w.tap, bytes |-> <<>>, err |-> TypeErrorNoReset]
         ELSE [tap |-> w.tap, bytes |-> Slice(w.tap.buf, 0, w.tap.pos), err |-> ""]
         : w \in {The({Write(t, start, v) : start \in {Tap(TAP.buf, 0)}, v \in {val}})}})

(***************************************************************************)
(* _check without a callback.                                              *)
(***************************************************************************)
RECURSIVE Check(_, _)
Check(t, val) ==
    CASE heap[t].kind = "string" -> val.k = "str"
      [] heap[t].kind = "array" ->
            val.k = "arr" /\ \A i \in 1..Len(val.a) : Check(heap[t].items, val.a[i])
      [] heap[t].kind = "record" ->
            IsObject(val)
            /\ \A i \in 1..Len(heap[t].fields) :
                  LET field == heap[t].fields[i]
                      v == Get(val, field.name)
                  IN  IF getDefault(field) = Undef THEN Check(field.type, v)
                      ELSE v = Undef \/ Check(field.type, v)

(***************************************************************************)
(* _check with a callback.  c is [path, calls, b, err]: the PATH stack,    *)
(* the callback's calls so far, the value returned and the error thrown.   *)
(***************************************************************************)
Call(path, val, t) == [path |-> path, val |-> val, type |-> t]

\* cb(PATH.slice(), val, this); return false
Report(c, val, t, hookThrows) ==
    IF hookThrows
    THEN [c EXCEPT !.calls = Append(@, Call(c.path, val, t)), !.err = "hook"]
    ELSE [c EXCEPT !.calls = Append(@, Call(c.path, val, t)), !.b = FALSE]

RECURSIVE CheckCb(_, _, _, _)
RECURSIVE CheckItems(_, _, _, _, _, _)

\* ArrayType._check's slow path, from val[i] on; j is the index of the path
\* entry the loop rewrites.
CheckItems(t, a, i, j, c, hookThrows) ==
    IF i > Len(a) THEN [c EXCEPT !.path = SubSeq(@, 1, Len(@) - 1), !.b = TRUE]
    ELSE The({IF c2.err # "" THEN c2
              ELSE IF ~c2.b THEN [c2 EXCEPT !.err = TypeErrorConst]  \* b = false
              ELSE CheckItems(t, a, i + 1, j, c2, hookThrows)
              : c2 \in {The({CheckCb(heap[t].items, a[i], c1, hookThrows)
                             : c1 \in {[c EXCEPT !.path[j + 1] = ToString(i - 1)]}})}})

CheckCb(t, val, c, hookThrows) ==
    CASE heap[t].kind = "string" ->
            IF val.k = "str" THEN [c EXCEPT !.b = TRUE]
            ELSE Report(c, val, t, hookThrows)
      [] heap[t].kind = "array" ->
            IF val.k # "arr" THEN Report(c, val, t, hookThrows)
            ELSE The({CheckItems(t, val.a, 1, Len(c.path), c1, hookThrows)
                      : c1 \in {[c EXCEPT !.path = Append(@, "")]}})
      [] heap[t].kind = "record" ->
            IF ~IsObject(val) THEN Report(c, val, t, hookThrows)
            ELSE IF heap[t].fields = <<>> THEN [c EXCEPT !.b = TRUE]
            ELSE \* P.push(''); P[j] = name; b &= t0._check(val.name, cb)
                 LET field == heap[t].fields[1]
                     v == Get(val, field.name)
                 IN  The({IF c2.err # "" THEN c2
                          ELSE [c2 EXCEPT !.err = TypeErrorConst]
                          : c2 \in {The({IF getDefault(field) = Undef \/ v # Undef
                                         THEN CheckCb(field.type, v, c1, hookThrows)
                                         ELSE [c1 EXCEPT !.b = TRUE]
                                         : c1 \in {[c EXCEPT !.path = Append(@, field.name)]}})}})

\* Type.prototype.isValid(val, opts): hook is "none" (no errorHook),
\* "collect" (an errorHook that returns) or "throw" (one that throws).
\* isValid without its loop: PATH as the call before left it.
ClearPathKept(path) == path

\* while (PATH.length) PATH.pop()
ClearPath(path) == <<>>

\* path is PATH when the call starts; the result's path is PATH when it ends.
isValid(t, val, hook, path) ==
    The({IF hook = "none" THEN [c EXCEPT !.b = Check(t, val)]
         ELSE CheckCb(t, val, c, hook = "throw")
         : c \in {[path |-> ClearPath(path), calls |-> <<>>, b |-> TRUE, err |-> ""]}})

(***************************************************************************)
(* The record constructor _createConstructor generates: positional, and    *)
(* for a field with a default an undefined argument takes the default.     *)
(***************************************************************************)
RecordNew(t, args) ==
    Obj([i \in 1..Len(heap[t].fields) |->
            LET field == heap[t].fields[i]
                v == IF i <= Len(args) THEN args[i] ELSE Undef
            IN  Prop(field.name,
                     IF getDefault(field) # Undef /\ v = Undef
                     THEN getDefault(field) ELSE v)])

(***************************************************************************)
(* _read, one step at a time.  A decode is [buf, pos, stack, status, val]; *)
(* a stack frame is a _read call in progress: its type, the items left in  *)
(* the current block (array) or the fields read (record), and the values   *)
(* read so far.                                                            *)
(***************************************************************************)
Frame(t, n, acc) == [t |-> t, n |-> n, acc |-> acc]

DecodeStart(t, bytes) ==
    [buf |-> U8Of(bytes), pos |-> 0, stack |-> <<Frame(t, 0, <<>>)>>,
     status |-> "run", val |-> Undef]

\* The _read call on top of the stack returns v to its caller.
Deliver(d, pos, v) ==
    LET rest == SubSeq(d.stack, 1, Len(d.stack) - 1)
    IN  IF rest = <<>>
        THEN [d EXCEPT !.pos = pos, !.stack = rest, !.status = "done", !.val = v]
        ELSE LET up == rest[Len(rest)]
                 up2 == IF heap[up.t].kind = "record"
                        THEN Frame(up.t, up.n + 1, Append(up.acc, v))
                        ELSE Frame(up.t, up.n, Append(up.acc, v))
             IN  [d EXCEPT !.pos = pos, !.stack = [rest EXCEPT ![Len(rest)] = up2]]

DecStep(d) ==
    LET top == Len(d.stack)
        f == d.stack[top]
        tap == Tap(d.buf, d.pos)
    IN  CASE heap[f.t].kind = "string" ->
                The({Deliver(d, r.pos, IF r.some THEN Str(r.s) ELSE Undef)
                     : r \in {readString(tap)}})
          [] heap[f.t].kind = "array" ->
                IF f.n > 0
                THEN \* while (n--) val.push(items._read(tap))
                     [d EXCEPT !.stack = Append([@ EXCEPT ![top].n = f.n - 1],
                                                Frame(heap[f.t].items, 0, <<>>))]
                ELSE The({IF IntOf(r.val) = 0 THEN Deliver(d, r.pos, Arr(f.acc))
                          ELSE IF IntOf(r.val) < 0   \* n = -n; tap.skipLong()
                          THEN [d EXCEPT !.pos = r.pos, !.stack[top].n = -IntOf(r.val),
                                         !.status = TypeErrorNoSkipLong]
                          ELSE [d EXCEPT !.pos = r.pos, !.stack[top].n = IntOf(r.val)]
                          : r \in {readLong(tap)}})
          [] heap[f.t].kind = "record" ->
                IF f.n < Len(heap[f.t].fields)
                THEN [d EXCEPT !.stack =
                         Append(@, Frame(heap[f.t].fields[f.n + 1].type, 0, <<>>))]
                ELSE Deliver(d, d.pos, RecordNew(f.t, f.acc))

\* The decode after at most fuel more steps, by halves.
RECURSIVE DecRun(_, _)
DecRun(d, fuel) ==
    IF d.status # "run" \/ fuel = 0 THEN d
    ELSE IF fuel = 1 THEN DecStep(d)
    ELSE The({DecRun(half, fuel - fuel \div 2) : half \in {DecRun(d, fuel \div 2)}})

MaxSteps == 60

\* Type.prototype.fromBuffer(buf, undefined, noCheck): the value returned or
\* the error thrown.  A read still running after MaxSteps steps has not
\* returned.
fromBuffer(t, bytes, noCheck) ==
    The({IF d.status = "run" THEN [val |-> Undef, err |-> "running", pos |-> d.pos]
         ELSE IF d.status # "done" THEN [val |-> Undef, err |-> d.status, pos |-> d.pos]
         ELSE IF ~TapIsValid(Tap(d.buf, d.pos))
         THEN [val |-> Undef, err |-> "truncated buffer", pos |-> d.pos]
         ELSE IF ~noCheck /\ d.pos < d.buf.size
         THEN [val |-> Undef, err |-> "trailing data", pos |-> d.pos]
         ELSE [val |-> d.val, err |-> "", pos |-> d.pos]
         : d \in {The({DecRun(d0, MaxSteps) : d0 \in {DecodeStart(t, bytes)}})}})

(***************************************************************************)
(* Schemas.  A schema is a Type already built, a string (a name, as its    *)
(* dot-separated parts), null, or an object with a type discriminator.     *)
(***************************************************************************)
Node(tag, type, name, namespace, items, fields, isArray, id) ==
    [tag |-> tag, type |-> type, name |-> name, namespace |-> namespace,
     items |-> items, fields |-> fields, isArray |-> isArray, id |-> id]
TypeS(id) == Node("type", "", <<>>, <<>>, <<>>, <<>>, FALSE, id)
RefS(name) == Node("ref", "", name, <<>>, <<>>, <<>>, FALSE, 0)
NullS == Node("null", "", <<>>, <<>>, <<>>, <<>>, FALSE, 0)
PrimS(type) == Node("def", type, <<>>, <<>>, <<>>, <<>>, FALSE, 0)
ArrayS(items) == Node("def", "array", <<>>, <<>>, items, <<>>, FALSE, 0)
RecordS(name, namespace, fields) ==
    Node("def", "record", name, namespace, <<>>, fields, TRUE, 0)
\* One entry of fields: {name, type, default?, order?}; order "" is absent.
FieldS(name, type, hasDefault, default, order) ==
    [name |-> name, type |-> type, hasDefault |-> hasDefault,
     default |-> default, order |-> order]

\* The names of the model that NAME_PATTERN, /^[A-Za-z_][A-Za-z0-9_]*$/,
\* does not match.
NoMatch == {"", "1a", "a-b"}
NAME_PATTERN(s) == s \notin NoMatch

TYPES == {"array", "record", "string"}
isPrimitive(name) == name = "string"
unqualify(name) == name[Len(name)]

\* The state of a createType call: the Type objects, the schema each was
\* built from, opts.registry, opts.namespace, and what the call returns
\* (id) or throws (err).
Threw(st, err) == [st EXCEPT !.err = err]

\* `new`: the object under construction.
Alloc(st, attrs) ==
    [st EXCEPT !.heap = Append(@, TypeObj("new", <<>>, 0, <<>>)),
               !.attrsOf = Append(@, attrs)]

\* getOpts(attrs, opts), for attrs that is not null
getOpts(attrs, st) ==
    [st EXCEPT !.namespace = IF attrs.namespace # <<>> THEN attrs.namespace ELSE @]

\* Type's constructor(registry), run for the object me whose _name is name
\* at that time.  Every subclass calls super() before it sets _name, and
\* none passes the registry.
TypeConstructor(st, me, hasRegistry, name) ==
    IF ~hasRegistry \/ name = <<>> THEN st
    ELSE IF name \in DOMAIN st.registry THEN Threw(st, "duplicate type name")
    ELSE [st EXCEPT !.registry = (name :> me) @@ @]

\* qualify(name) of resolveNames: the qualified name or the error thrown.
qualify(name, namespace) ==
    LET full == IF Len(name) = 1 /\ namespace # <<>> THEN namespace \o name ELSE name
    IN  IF isPrimitive(unqualify(full))
        THEN [name |-> full, err |-> "cannot rename primitive type"]
        ELSE IF \E i \in 1..Len(full) : ~NAME_PATTERN(full[i])
        THEN [name |-> full, err |-> "invalid name"]
        ELSE [name |-> full, err |-> ""]

OrderOf(order) ==
    CASE order \in {"", "ascending"} -> 1
      [] order = "descending" -> -1
      [] order = "ignore" -> 0
      [] OTHER -> 2   \* throws

RECURSIVE createType(_, _)
RECURSIVE NewFields(_, _, _, _)

\* attrs.fields.map(f => new Field(f, opts)), from entry i on; acc holds the
\* Fields built.
NewFields(fields, i, acc, st) ==
    IF i > Len(fields) THEN [st |-> st, fields |-> acc]
    ELSE LET f == fields[i]
         IN  IF ~NAME_PATTERN(f.name)
             THEN [st |-> Threw(st, "invalid field name"), fields |-> acc]
             ELSE LET r == createType(f.type, st)
                  IN  IF r.err # "" THEN [st |-> r, fields |-> acc]
                      ELSE IF OrderOf(f.order) = 2
                      THEN [st |-> Threw(r, "invalid order"), fields |-> acc]
                      ELSE NewFields(fields, i + 1,
                               Append(acc, [name |-> f.name, type |-> r.id,
                                            order |-> OrderOf(f.order)]), r)

\* new StringType(attrs, opts): the inherited constructor hands attrs to
\* Type's constructor as its registry; _name is undefined.
NewString(attrs, st) ==
    LET a == Alloc(st, attrs)
        me == Len(a.heap)
        c == TypeConstructor(a, me, TRUE, <<>>)
    IN  [c EXCEPT !.heap[me] = TypeObj("string", <<>>, 0, <<>>), !.id = me]

\* new ArrayType(attrs, opts)
NewArray(attrs, st) ==
    LET a == Alloc(st, attrs)
        me == Len(a.heap)
        c == TypeConstructor(a, me, FALSE, <<>>)
    IN  IF attrs.items = <<>> THEN Threw(c, "missing array items")
        ELSE LET r == createType(attrs.items[1], getOpts(attrs, c))
             IN  IF r.err # "" THEN r
                 ELSE [r EXCEPT !.heap[me] = TypeObj("array", <<>>, r.id, <<>>),
                                !.id = me]

\* new RecordType(attrs, opts)
NewRecord(attrs, st) ==
    LET a == Alloc(st, attrs)
        me == Len(a.heap)
        c == getOpts(attrs, TypeConstructor(a, me, FALSE, <<>>))
        q == qualify(attrs.name, c.namespace)
    IN  IF attrs.name = <<>> THEN Threw(c, "missing name property in schema")
        ELSE IF q.err # "" THEN Threw(c, q.err)
        ELSE IF ~attrs.isArray THEN Threw(c, "non-array fields")
        ELSE LET r == NewFields(attrs.fields, 1, <<>>, c)
                 names == [i \in 1..Len(attrs.fields) |-> attrs.fields[i].name]
             IN  IF r.st.err # "" THEN r.st
                 ELSE IF hasDuplicates(names)
                 THEN Threw(r.st, "duplicate field name")
                 ELSE [r.st EXCEPT !.heap[me] = TypeObj("record", q.name, 0, r.fields),
                                   !.id = me]

createType(attrs, st) ==
    IF attrs.tag = "type" THEN [st EXCEPT !.id = attrs.id]
    ELSE IF attrs.tag = "null" THEN Threw(st, "invalid type: null")
    ELSE IF attrs.tag = "ref"
    THEN IF attrs.name \in DOMAIN st.registry
         THEN [st EXCEPT !.id = st.registry[attrs.name]]
         ELSE IF Len(attrs.name) = 1 /\ isPrimitive(attrs.name[1])
         THEN LET r == createType(PrimS(attrs.name[1]), st)
              IN  IF r.err # "" THEN r
                  ELSE [r EXCEPT !.registry = (attrs.name :> r.id) @@ @]
         ELSE Threw(st, "undefined type name")
    ELSE LET o == getOpts(attrs, st)
         IN  CASE attrs.type \notin TYPES -> Threw(o, "unknown type")
               [] attrs.type = "string" -> NewString(attrs, o)
               [] attrs.type = "array" -> NewArray(attrs, o)
               [] attrs.type = "record" -> NewRecord(attrs, o)

\* parse(schema, {registry}): createType with a fresh opts object around the
\* caller's registry.
parse(attrs, objects, sources, reg) ==
    createType(attrs, [heap |-> objects, attrsOf |-> sources, registry |-> reg,
                       namespace |-> <<>>, err |-> "", id |-> 0])

(***************************************************************************)
(* The state machine.  ret is the call the program's user made last, with  *)
(* its arguments and what it returned or threw; op "none" is no call.      *)
(***************************************************************************)
TapSize == 1024

\* No _read call in progress.
NoRead ==
    [buf |-> U8Of(<<>>), pos |-> 0, stack |-> <<>>, status |-> "none", val |-> Undef]

NoRet ==
    [op |-> "none", attrs |-> NullS, t |-> 0, v |-> Undef, bytes |-> <<>>,
     noCheck |-> FALSE, hook |-> "none", n |-> NumOf(0),
     val |-> Undef, b |-> FALSE, out |-> <<>>, pos |-> 0, num |-> NumOf(0),
     calls |-> <<>>, err |-> "", stage |-> 0, v0 |-> Undef, b0 |-> <<>>,
     read |-> NoRead, steps |-> 0, path0 |-> <<>>]

NoRegistry == [name \in {} |-> 0]

\* The module as loaded: TAP = new Tap(new Uint8Array(1024)), PATH = [].
InitModule ==
    /\ TAP = Tap(U8(TapSize, <<>>), 0)
    /\ PATH = <<>>
    /\ ret = NoRet

(***************************************************************************)
(* Schema parsing.                                                         *)
(***************************************************************************)
MaxHeap == 3
MaxFields == 2

StringS == RefS(<<"string">>)
FieldNames == {"a", "b", "toString", "constructor", "1a"}
Field1(name) == FieldS(name, StringS, FALSE, Undef, "")
FieldLists ==
    UNION {[1..n -> {Field1(name) : name \in FieldNames}] : n \in 0..MaxFields}

SchemaInputs ==
    {RecordS(<<"Foo">>, <<"ns">>, fields) : fields \in FieldLists}
    \cup {StringS, RefS(<<"ns", "Foo">>), RefS(<<"Foo">>), NullS, PrimS("enum"),
          ArrayS(<<StringS>>), ArrayS(<<>>),
          RecordS(<<"Bar">>, <<>>, <<>>),
          RecordS(<<"string">>, <<"ns">>, <<>>),
          RecordS(<<"a-b">>, <<>>, <<>>),
          RecordS(<<>>, <<>>, <<>>),
          Node("def", "record", <<"Foo">>, <<>>, <<>>, <<>>, FALSE, 0),
          RecordS(<<"Baz">>, <<"ns">>,
                  <<FieldS("f", RefS(<<"ns", "Foo">>), FALSE, Undef, "")>>),
          RecordS(<<"Ord">>, <<>>, <<FieldS("a", StringS, FALSE, Undef, "sideways")>>),
          RecordS(<<"Ord">>, <<>>, <<FieldS("a", StringS, TRUE, Str(<<120>>), "ignore")>>)}

InitSchema ==
    /\ registry = NoRegistry
    /\ heap = <<>>
    /\ attrsOf = <<>>
    /\ InitModule

\* parse(attrs, {registry}) with the registry every call shares.
CreateType(attrs) ==
    /\ Len(heap) < MaxHeap
    /\ \E r \in {parse(attrs, heap, attrsOf, registry)} :
           /\ registry' = r.registry
           /\ heap' = r.heap
           /\ attrsOf' = r.attrsOf
           /\ ret' = [NoRet EXCEPT !.op = "createType", !.attrs = attrs,
                                   !.t = r.id, !.err = r.err]
    /\ UNCHANGED <<TAP, PATH>>

NextSchema ==
    \/ \E attrs \in SchemaInputs : CreateType(attrs)
    \/ \E id \in 1..Len(heap) : heap[id].kind # "new" /\ CreateType(TypeS(id))

SchemaSpec == InitSchema /\ [][NextSchema]_vars

(***************************************************************************)
(* The types the codec runs on: string, array of string, the record        *)
(* ns.Pair {a: string, b: array of string}, the record Empty {}, the       *)
(* record Opt {a: string, default "x"} and array of Empty, each built by   *)
(* parse with one registry.                                                *)
(***************************************************************************)
BootSchemas ==
    <<StringS,
      ArrayS(<<StringS>>),
      RecordS(<<"Pair">>, <<"ns">>,
              <<Field1("a"), FieldS("b", TypeS(2), FALSE, Undef, "")>>),
      RecordS(<<"Empty">>, <<>>, <<>>),
      RecordS(<<"Opt">>, <<>>, <<FieldS("a", StringS, TRUE, Str(<<120>>), "")>>),
      ArrayS(<<TypeS(4)>>)>>

RECURSIVE BootFrom(_, _)
BootFrom(i, st) ==
    IF i > Len(BootSchemas) THEN st
    ELSE BootFrom(i + 1, parse(BootSchemas[i], st.heap, st.attrsOf, st.registry))

Boot == BootFrom(1, [heap |-> <<>>, attrsOf |-> <<>>, registry |-> NoRegistry])

Init ==
    /\ registry = Boot.registry
    /\ heap = Boot.heap
    /\ attrsOf = Boot.attrsOf
    /\ InitModule

Types == 1..Len(heap)
RecordTypes == {t \in Types : heap[t].kind = "record"}

\* Is the caller between calls?
Idle == ret.op = "none"

\* The caller drops what the last call gave it.
Return ==
    /\ ~Idle
    /\ ret' = NoRet
    /\ UNCHANGED <<registry, heap, attrsOf, TAP, PATH>>

(***************************************************************************)
(* Values handed to toBuffer and isValid.                                  *)
(***************************************************************************)
LongString == [i \in 1..(TapSize - 1) |-> 97]
SA == Str(<<97>>)
SBom == Str(<<65279, 97>>)

Strings ==
    {Str(<<>>), SA, Str(<<97, 233>>), SBom, Str(<<65279>>), Str(<<55357>>),
     Str(<<55357, 56832>>), Str(LongString)}
Arrays ==
    {Arr(<<>>), Arr(<<SA>>), Arr(<<SA, Str(<<233>>)>>), Arr(<<SA, Number>>),
     Arr(<<Number, SA, Undef>>), Arr(<<SBom>>), Arr(<<Obj(<<>>), Obj(<<>>)>>),
     Arr(<<Obj(<<>>), SA>>)}
Objects ==
    {Obj(<<>>),
     Obj(<<Prop("a", SA), Prop("b", Arr(<<>>))>>),
     Obj(<<Prop("b", Arr(<<SA>>)), Prop("a", Str(<<233>>))>>),
     Obj(<<Prop("a", Str(<<233>>)), Prop("b", Arr(<<SA>>))>>),
     Obj(<<Prop("a", SBom), Prop("b", Arr(<<>>))>>),
     Obj(<<Prop("a", Number), Prop("b", Arr(<<Number>>))>>),
     Obj(<<Prop("a", SA), Prop("b", Arr(<<SA, Number, Number>>))>>),
     Obj(<<Prop("a", SA)>>)}
Values == Strings \cup Arrays \cup Objects \cup {Number, Undef}

(***************************************************************************)
(* Encoding and decoding what was encoded.                                 *)
(***************************************************************************)
\* type.toBuffer(v)
ToBuffer(t, v) ==
    /\ Idle
    /\ \E r \in {toBuffer(t, v)} :
           /\ TAP' = r.tap
           /\ ret' = [NoRet EXCEPT !.op = "toBuffer", !.t = t, !.v = v,
                                   !.out = r.bytes, !.err = r.err,
                                   !.stage = 1, !.v0 = v, !.b0 = r.bytes]
    /\ UNCHANGED <<registry, heap, attrsOf, PATH>>

\* type.fromBuffer(b), for the bytes b the last toBuffer call returned
Decode ==
    /\ ret.op = "toBuffer" /\ ret.stage = 1 /\ ret.err = ""
    /\ \E r \in {fromBuffer(ret.t, ret.out, FALSE)} :
           ret' = [ret EXCEPT !.op = "fromBuffer", !.bytes = ret.out,
                              !.val = r.val, !.err = r.err, !.pos = r.pos,
                              !.stage = 2]
    /\ UNCHANGED <<registry, heap, attrsOf, TAP, PATH>>

\* new Record(...args), Record = the constructor of record type t
Construct(t, args) ==
    /\ Idle
    /\ ret' = [NoRet EXCEPT !.op = "construct", !.t = t, !.v = Arr(args),
                            !.val = RecordNew(t, args)]
    /\ UNCHANGED <<registry, heap, attrsOf, TAP, PATH>>

\* type.toBuffer(x), for the value x the last fromBuffer call or constructor
\* returned
Encode ==
    /\ ret.op \in {"fromBuffer", "construct"} /\ ret.err = ""
    /\ \E r \in {toBuffer(ret.t, ret.val)} :
           /\ TAP' = r.tap
           /\ ret' = [ret EXCEPT !.op = "toBuffer", !.v = ret.val,
                                 !.out = r.bytes, !.err = r.err,
                                 !.stage = IF ret.stage = 2 THEN 3 ELSE 4]
    /\ UNCHANGED <<registry, heap, attrsOf, PATH>>

ConstructorArgs == {<<>>, <<SA>>, <<Undef, Arr(<<SA>>)>>, <<SA, Arr(<<>>)>>}

Next ==
    \/ Idle /\ \E t \in Types, v \in Values : ToBuffer(t, v)
    \/ Decode
    \/ Idle /\ \E t \in RecordTypes, args \in ConstructorArgs : Construct(t, args)
    \/ Encode
    \/ Return

Spec == Init /\ [][Next]_vars

(***************************************************************************)
(* Decoding arbitrary bytes.                                               *)
(***************************************************************************)
MaxBufLen == 5
ByteAlphabet == {0, 1, 2, 3, 97}
Buffers == UNION {[1..n -> ByteAlphabet] : n \in 0..MaxBufLen}

\* type.fromBuffer(bytes, undefined, noCheck)
FromBuffer(t, bytes, noCheck) ==
    /\ Idle
    /\ \E r \in {fromBuffer(t, bytes, noCheck)} :
           ret' = [NoRet EXCEPT !.op = "fromBuffer", !.t = t, !.bytes = bytes,
                                !.noCheck = noCheck, !.val = r.val,
                                !.err = r.err, !.pos = r.pos]
    /\ UNCHANGED <<registry, heap, attrsOf, TAP, PATH>>

NextDecode ==
    \/ Idle /\ \E t \in Types, bytes \in Buffers, noCheck \in BOOLEAN :
                  FromBuffer(t, bytes, noCheck)
    \/ Return

DecodeSpec == Init /\ [][NextDecode]_vars

(***************************************************************************)
(* Validation.                                                             *)
(***************************************************************************)
Hooks == {"none", "collect", "throw"}

\* type.isValid(v, {errorHook})
IsValid(t, v, hook) ==
    /\ Idle
    /\ \E r \in {isValid(t, v, hook, PATH)} :
           /\ PATH' = r.path
           /\ ret' = [NoRet EXCEPT !.op = "isValid", !.t = t, !.v = v,
                                   !.hook = hook, !.b = r.b, !.err = r.err,
                                   !.calls = r.calls, !.path0 = PATH]
    /\ UNCHANGED <<registry, heap, attrsOf, TAP>>

NextValid ==
    \/ Idle /\ \E t \in Types, v \in Values, hook \in Hooks : IsValid(t, v, hook)
    \/ Return

ValidSpec == Init /\ [][NextValid]_vars

(***************************************************************************)
(* The long codec on its own: writeLong(n) on a fresh tap, then readLong   *)
(* on the bytes written.                                                   *)
(***************************************************************************)
LongBufSize == 10
MaxDelta == 2

\* w + d for a small integer d, when that is not negative
WPlus(w, d) ==
    IF w.hi = 0 THEN [hi |-> 0, lo |-> w.lo + d]
    ELSE WNorm(w.hi - 1, w.lo + TwoTo28 + d)

MaxSafe == [hi |-> TwoTo28 \div 8 - 1, lo |-> TwoTo28 - 1]   \* 2^53 - 1
WLeq(a, b) == a.hi < b.hi \/ (a.hi = b.hi /\ a.lo <= b.lo)

\* 0, the points where the encoding grows by a byte, 2^27 and 2^28 (where
\* readLong changes arithmetic), 2^30 (where writeLong does), 2^52 and 2^53-1.
LongBases ==
    {[hi |-> 0, lo |-> 0], [hi |-> 0, lo |-> 64], [hi |-> 0, lo |-> 8192],
     [hi |-> 0, lo |-> 1048576], [hi |-> 0, lo |-> TwoTo28 \div 2],
     [hi |-> 1, lo |-> 0], [hi |-> TwoTo30 \div TwoTo28, lo |-> 0],
     [hi |-> 128, lo |-> 0], [hi |-> TwoTo28 \div 16, lo |-> 0], MaxSafe}

Around(base) ==
    {WPlus(base, d) :
        d \in (IF base.hi = 0 THEN -Min(base.lo, MaxDelta) ELSE -MaxDelta)..MaxDelta}

LongInputs ==
    {Num(neg, w.hi, w.lo) : neg \in BOOLEAN, w \in UNION {Around(base) : base \in LongBases}}

WriteLong(n) ==
    /\ Idle
    /\ WLeq([hi |-> n.hi, lo |-> n.lo], MaxSafe)
    /\ ~(n.neg /\ n.hi = 0 /\ n.lo = 0)
    /\ \E w \in {writeLong(Tap(U8(LongBufSize, <<>>), 0), n)} :
           ret' = [NoRet EXCEPT !.op = "writeLong", !.n = n, !.pos = w.pos,
                                !.out = Slice(w.buf, 0, w.pos)]
    /\ UNCHANGED <<registry, heap, attrsOf, TAP, PATH>>

ReadLong ==
    /\ ret.op = "writeLong"
    /\ \E r \in {readLong(Tap(U8Of(ret.out), 0))} :
           ret' = [ret EXCEPT !.op = "readLong", !.bytes = ret.out,
                              !.num = r.val, !.pos = r.pos]
    /\ UNCHANGED <<registry, heap, attrsOf, TAP, PATH>>

NextLong ==
    \/ Idle /\ \E n \in LongInputs : WriteLong(n)
    \/ ReadLong
    \/ Return

LongSpec == Init /\ [][NextLong]_vars

(***************************************************************************)
(* A fromBuffer call, one step of its _read calls at a time: ret.read is   *)
(* the read in progress and ret.steps the steps it has taken.              *)
(***************************************************************************)
MaxReadLen == 3
MaxReadSteps == 12
ReadBuffers == UNION {[1..n -> ByteAlphabet] : n \in 0..MaxReadLen}

\* type.fromBuffer(bytes): new Tap(buf), and the type's _read is entered
StartRead(t, bytes) ==
    /\ Idle
    /\ ret' = [NoRet EXCEPT !.op = "read", !.t = t, !.bytes = bytes,
                            !.read = DecodeStart(t, bytes)]
    /\ UNCHANGED <<registry, heap, attrsOf, TAP, PATH>>

\* The _read call on top of the stack takes its next step.
ReadStep ==
    /\ ret.op = "read" /\ ret.read.status = "run"
    /\ ret.steps < MaxReadSteps
    /\ \E d \in {DecStep(ret.read)} :
           ret' = [ret EXCEPT !.read = d, !.pos = d.pos, !.steps = @ + 1]
    /\ UNCHANGED <<registry, heap, attrsOf, TAP, PATH>>

NextRead ==
    \/ Idle /\ \E t \in Types, bytes \in ReadBuffers : StartRead(t, bytes)
    \/ ReadStep
    \/ Return

ReadSpec == Init /\ [][NextRead]_vars

(***************************************************************************)
(* The properties.                                                         *)
(***************************************************************************)
\* Are a and b the same value of type t: the same string, the same items
\* in the same order, the same field values?
RECURSIVE SameValue(_, _, _)
SameValue(t, a, b) ==
    CASE heap[t].kind = "string" -> a.k = "str" /\ b.k = "str" /\ a.s = b.s
      [] heap[t].kind = "array" ->
            /\ a.k = "arr" /\ b.k = "arr" /\ Len(a.a) = Len(b.a)
            /\ \A i \in 1..Len(a.a) : SameValue(heap[t].items, a.a[i], b.a[i])
      [] heap[t].kind = "record" ->
            \A i \in 1..Len(heap[t].fields) :
                LET field == heap[t].fields[i]
                IN  SameValue(field.type, Get(a, field.name), Get(b, field.name))

\* The bytes of v's encoding: what _write writes where nothing ends the
\* buffer.
Encoding(t, v) ==
    The({Slice(w.tap.buf, 0, w.tap.pos)
         : w \in {Write(t, Tap(U8(4 * TapSize, <<>>), 0), v)}})

\* C1: fromBuffer(toBuffer(v)) returns a value equal to v, for every type
\* and every v for which isValid(v) is true, whatever calls were made on
\* the shared tap before.
C1_RoundTrip ==
    (ret.op = "fromBuffer" /\ ret.stage = 2 /\ Check(ret.t, ret.v0))
        => (ret.err = "" /\ SameValue(ret.t, ret.val, ret.v0))

\* C2: after createType has parsed a record schema with a registry, the
\* registry maps the record's qualified name to the Type created, and
\* createType of that name with the same registry returns that Type.
C2_Registered ==
    /\ (ret.op = "createType" /\ ret.err = "" /\ ret.attrs.tag = "def"
            /\ ret.attrs.type = "record")
        => (heap[ret.t].name \in DOMAIN registry
                /\ registry[heap[ret.t].name] = ret.t)
    /\ (ret.op = "createType" /\ ret.attrs.tag = "ref"
            /\ \E t \in 1..Len(heap) : heap[t].kind = "record"
                                         /\ heap[t].name = ret.attrs.name)
        => (ret.err = "" /\ heap[ret.t].kind = "record"
                /\ heap[ret.t].name = ret.attrs.name)

\* The encodings of v's fields, in the order type t declares them.
FieldEncodings(t, v) ==
    ConcatRange([i \in 1..Len(heap[t].fields) |->
                    Encoding(heap[t].fields[i].type, Get(v, heap[t].fields[i].name))],
                1, Len(heap[t].fields))

\* C3: toBuffer of a record value is the encodings of its fields in the
\* order the schema declares them, and toBuffer(fromBuffer(toBuffer(v)))
\* equals toBuffer(v) byte for byte.
C3_FieldOrder ==
    /\ (ret.op = "toBuffer" /\ ret.stage = 1 /\ ret.err = ""
            /\ heap[ret.t].kind = "record" /\ ret.v.k = "obj")
        => ret.out = FieldEncodings(ret.t, ret.v)
    /\ (ret.op = "toBuffer" /\ ret.stage = 3 /\ heap[ret.t].kind = "record"
            /\ ret.v0.k = "obj" /\ Check(ret.t, ret.v0))
        => (ret.err = "" /\ ret.out = ret.b0)

\* The invalid leaves of val against type t, each with the path of field
\* names and array indices that leads to it from the root.
RECURSIVE InvalidLeaves(_, _, _)
InvalidLeaves(t, val, path) ==
    CASE heap[t].kind = "string" ->
            IF val.k = "str" THEN <<>> ELSE <<Call(path, val, t)>>
      [] heap[t].kind = "array" ->
            IF val.k # "arr" THEN <<Call(path, val, t)>>
            ELSE ConcatRange([i \in 1..Len(val.a) |->
                                 InvalidLeaves(heap[t].items, val.a[i],
                                               Append(path, ToString(i - 1)))],
                             1, Len(val.a))
      [] heap[t].kind = "record" ->
            IF ~IsObject(val) THEN <<Call(path, val, t)>>
            ELSE ConcatRange([i \in 1..Len(heap[t].fields) |->
                                 InvalidLeaves(heap[t].fields[i].type,
                                               Get(val, heap[t].fields[i].name),
                                               Append(path, heap[t].fields[i].name))],
                             1, Len(heap[t].fields))

\* C4: isValid never raises for an invalid value: it returns false, and an
\* errorHook is called once for every invalid leaf, with the leaf's path.
C4_NeverRaises ==
    (ret.op = "isValid" /\ ret.hook \in {"none", "collect"} /\ ~Check(ret.t, ret.v))
        => /\ ret.err = ""
           /\ ret.b = FALSE
           /\ ret.hook = "collect" => ret.calls = InvalidLeaves(ret.t, ret.v, <<>>)

\* C5: fromBuffer fails with 'truncated buffer' when the read leaves the
\* position past the buffer's end; otherwise with 'trailing data' when the
\* position ends before the end and noCheck is not set; otherwise it
\* returns the value.
C5_Outcome ==
    ret.op = "fromBuffer"
        => ret.err = (IF ret.pos > Len(ret.bytes) THEN "truncated buffer"
                      ELSE IF ret.pos < Len(ret.bytes) /\ ~ret.noCheck
                      THEN "trailing data"
                      ELSE "")

MaxBlocks == 2
MaxBlockItems == 2

\* The zigzag varint of a small n: one byte.
Zigzag(n) == IF n >= 0 THEN 2 * n ELSE -2 * n - 1

\* An array's encoding in blocks: a block is its items, with a negative
\* count and its size in bytes before them when sized.
Block(sized, items) == [sized |-> sized, items |-> items]
BlockItems == {Str(<<>>), SA}
Blocks ==
    {Block(sized, items) :
        sized \in BOOLEAN,
        items \in UNION {[1..n -> BlockItems] : n \in 1..MaxBlockItems}}
BlockLists == UNION {[1..n -> Blocks] : n \in 0..MaxBlocks}

ItemBytes(t, items) ==
    ConcatRange([i \in 1..Len(items) |-> Encoding(t, items[i])], 1, Len(items))
BlockBytes(t, block) ==
    IF block.sized
    THEN <<Zigzag(-Len(block.items)), Zigzag(Len(ItemBytes(t, block.items)))>>
         \o ItemBytes(t, block.items)
    ELSE <<Zigzag(Len(block.items))>> \o ItemBytes(t, block.items)
ArrayBytes(t, blocks) ==
    ConcatRange([i \in 1..Len(blocks) |-> BlockBytes(t, blocks[i])], 1, Len(blocks))
        \o <<0>>
AllItems(blocks) ==
    ConcatRange([i \in 1..Len(blocks) |-> blocks[i].items], 1, Len(blocks))

\* C6: decoding an array accepts any sequence of blocks up to the first
\* zero count, sized (negative count) or not, and returns all the blocks'
\* items in order.
C6_Blocks ==
    (ret.op = "fromBuffer" /\ heap[ret.t].kind = "array"
        /\ heap[heap[ret.t].items].kind = "string")
        => \A blocks \in BlockLists :
              ret.bytes = ArrayBytes(heap[ret.t].items, blocks)
                  => (ret.err = "" /\ ret.val = Arr(AllItems(blocks)))

\* C7: a toBuffer call that writes more than the scratch buffer holds
\* grows the buffer and returns exactly the bytes of the value's encoding.
C7_Grows ==
    (ret.op = "toBuffer" /\ ret.stage = 1 /\ Check(ret.t, ret.v)
        /\ Len(Encoding(ret.t, ret.v)) > TapSize)
        => (ret.err = "" /\ ret.out = Encoding(ret.t, ret.v)
                /\ TAP.buf.size >= Len(ret.out))

\* Does the schema of field i of record type t declare a default, and
\* which?
HasDefault(t, i) == attrsOf[t].fields[i].hasDefault
DeclaredDefault(t, i) == attrsOf[t].fields[i].default

\* C8: a record built without the argument of a field that declares a
\* default holds the default in that field, and writing an object that
\* lacks the field writes the default's encoding.
C8_Defaults ==
    /\ ret.op = "construct"
        => \A i \in 1..Len(heap[ret.t].fields) :
              (HasDefault(ret.t, i) /\ (i > Len(ret.v.a) \/ ret.v.a[i] = Undef))
                  => Get(ret.val, heap[ret.t].fields[i].name) = DeclaredDefault(ret.t, i)
    /\ (ret.op = "toBuffer" /\ ret.stage = 1 /\ heap[ret.t].kind = "record"
            /\ ret.v.k = "obj"
            /\ \A i \in 1..Len(heap[ret.t].fields) :
                  /\ HasDefault(ret.t, i)
                  /\ Get(ret.v, heap[ret.t].fields[i].name) = Undef)
        => /\ ret.err = ""
           /\ ret.out = ConcatRange(
                  [i \in 1..Len(heap[ret.t].fields) |->
                      Encoding(heap[ret.t].fields[i].type, DeclaredDefault(ret.t, i))],
                  1, Len(heap[ret.t].fields))

\* C9: readLong of the bytes writeLong(n) wrote returns n and consumes
\* exactly those bytes, for every integer n from -(2^53 - 1) to 2^53 - 1.
C9_LongRoundTrip ==
    ret.op = "readLong" => (ret.num = ret.n /\ ret.pos = Len(ret.bytes))

\* Do two entries of fields have the same name?
Repeats(fields) ==
    \E i, j \in 1..Len(fields) : i # j /\ fields[i].name = fields[j].name

\* C10: building a record type fails with the duplicate field name error
\* exactly when two entries of its fields have the same name.
C10_Duplicates ==
    (ret.op = "createType" /\ ret.attrs.tag = "def" /\ ret.attrs.type = "record"
        /\ ret.attrs.isArray)
        => /\ Repeats(ret.attrs.fields) => ret.err # ""
           /\ ~Repeats(ret.attrs.fields) => ret.err # "duplicate field name"

\* C11: fromBuffer terminates for every buffer: the position never moves
\* backwards during a decode, so no input makes the array read loop
\* revisit bytes.
C11_Forward ==
    [][(ret.op = "read" /\ ret'.op = "read") => ret'.read.pos >= ret.read.pos]_vars

\* C12: whatever the isValid calls before left on the path stack, every
\* path an isValid call passes to its callback is the path of the leaf
\* reported, within the value checked in that call; and a call that
\* returns normally leaves the path stack empty.
C12_FreshPath ==
    ret.op = "isValid"
        => /\ Len(ret.calls) <= Len(InvalidLeaves(ret.t, ret.v, <<>>))
           /\ ret.calls = SubSeq(InvalidLeaves(ret.t, ret.v, <<>>), 1, Len(ret.calls))
           /\ ret.err = "" => PATH = <<>>

\* An isValid call that found the path stack non-empty, left so by a call
\* that threw, and called its callback.
C12_StalePathSeen ==
    ret.op = "isValid" /\ ret.path0 # <<>> /\ ret.calls # <<>>

====
